---- MODULE Spec2Model ----
(***************************************************************************)
(* CallRail -> Google Ads conversion sync.                                 *)
(*                                                                         *)
(* Two Netlify functions are modelled:                                     *)
(*   variant "csv"    the caller-aggregating CSV export (fetchAllCalls,    *)
(*                    callerGroups, value split across a caller's calls);  *)
(*   variant "sheets" the per-call Google Sheets sync (fetchCallRailCalls, *)
(*                    calculateValue, writeToGoogleSheets).                *)
(*                                                                         *)
(* Strings the code inspects character by character are tuples of tokens:  *)
(* a phone number is a tuple of one-character strings, a URL and a call    *)
(* text are tuples of lexical tokens ("?", "&", "gclid=", "25", "hp", " ").*)
(* The empty tuple stands for an absent, null or empty string (all falsy   *)
(* in JavaScript).  Money is kept in integer cents.                        *)
(***************************************************************************)
EXTENDS Integers, Sequences, FiniteSets, TLC

VARIABLES
  provider,   \* what the call source holds for the requested window
  budget,     \* invocations the scheduler may still trigger
  clock,      \* the wall clock, read by new Date()
  host,       \* hours the function host's time zone is behind UTC
  inv,        \* the invocations of exports.handler
  sheet,      \* the rows of the Conversions sheet
  probe       \* one application of a pure function to chosen inputs

vars == <<provider, budget, clock, host, inv, sheet, probe>>

\* ------------------------------------------------------------------------
\* CONFIG
\* ------------------------------------------------------------------------

\* CONFIG.products: catalog key -> price in dollars.
Products ==
  [k \in {"3", "5", "7", "10", "15", "20", "25", "30", "40", "50", "60", "75",
          "100", "default"} |->
     CASE k = "3" -> 895 [] k = "5" -> 1095 [] k = "7" -> 1395
       [] k = "10" -> 1995 [] k = "15" -> 2495 [] k = "20" -> 2995
       [] k = "25" -> 3495 [] k = "30" -> 3995 [] k = "40" -> 4995
       [] k = "50" -> 5995 [] k = "60" -> 6995 [] k = "75" -> 8495
       [] k = "100" -> 10995 [] OTHER -> 3500]

\* CONFIG.products[key] || CONFIG.products.default
ProductPrice(key) ==
  IF key \in DOMAIN Products THEN Products[key] ELSE Products["default"]

TierNames == {"very_poor", "poor", "fair", "good", "very_good"}

\* CONFIG.tiers, in hundredths (0.25 is 25): every multiplier is a multiple
\* of 1/4, so price * multiplier * 100 is an exact integer number of cents.
Tiers ==
  [t \in TierNames |->
     CASE t = "very_poor" -> 0 [] t = "poor" -> 25 [] t = "fair" -> 50
       [] t = "good" -> 75 [] OTHER -> 100]

\* CONFIG.tiers[tier] || 0
TierMultiplier(tier) == IF tier \in DOMAIN Tiers THEN Tiers[tier] ELSE 0

\* per_page=250 and the test calls.length < 250
PerPage == 250

\* page >= 10
MaxPages == 10

\* the score of a call without a usable lead score
DefaultScore == 30

\* slice(-10)
KeepDigits == 10

\* ------------------------------------------------------------------------
\* Small helpers
\* ------------------------------------------------------------------------

Min(S) == CHOOSE x \in S : \A y \in S : x <= y

Max(S) == CHOOSE x \in S : \A y \in S : x >= y

\* Math.round(num / den) for num >= 0, den > 0: halves round up.
RoundDiv(num, den) == (2 * num + den) \div (2 * den)

Abs(x) == IF x < 0 THEN -x ELSE x

\* the last n elements of s: s.slice(-n)
LastN(s, n) == IF Len(s) <= n THEN s ELSE SubSeq(s, Len(s) - n + 1, Len(s))

Digits == {"0", "1", "2", "3", "4", "5", "6", "7", "8", "9"}

DigitVal(d) ==
  CASE d = "0" -> 0 [] d = "1" -> 1 [] d = "2" -> 2 [] d = "3" -> 3
    [] d = "4" -> 4 [] d = "5" -> 5 [] d = "6" -> 6 [] d = "7" -> 7
    [] d = "8" -> 8 [] OTHER -> 9

\* ------------------------------------------------------------------------
\* extractGclid
\* ------------------------------------------------------------------------

\* The positions where /[?&]gclid=([^&]+)/ matches: a "?" or "&", then
\* "gclid=", then at least one character other than "&".
GclidMatchAt(url) ==
  {i \in 1..Len(url) :
     /\ url[i] \in {"?", "&"}
     /\ i + 2 <= Len(url)
     /\ url[i + 1] = "gclid="
     /\ url[i + 2] # "&"}

\* match[1] of the match at position i: everything up to the next "&" or
\* the end.
GclidCapture(url, i) ==
  LET stops == {j \in (i + 2)..Len(url) : url[j] = "&"}
  IN  SubSeq(url, i + 2, IF stops = {} THEN Len(url) ELSE Min(stops) - 1)

\* The empty tuple is the code's null.
extractGclid(call) ==
  IF call.gclid # <<>> THEN call.gclid
  ELSE IF call.landing_page_url # <<>> /\ GclidMatchAt(call.landing_page_url) # {}
       THEN GclidCapture(call.landing_page_url,
                         Min(GclidMatchAt(call.landing_page_url)))
       ELSE <<>>

\* ------------------------------------------------------------------------
\* getScorePercent, getTier (csv variant)
\* ------------------------------------------------------------------------

\* String.prototype.toLowerCase on the score strings and text tokens used.
ToLowerCase(s) ==
  CASE s = "Good" -> "good" [] s = "VERY_GOOD" -> "very_good"
    [] s = "HP" -> "hp" [] s = "Horsepower" -> "horsepower"
    [] OTHER -> s

\* map[leadScore.toLowerCase()] || 30
ScoreOfString(s) ==
  LET l == ToLowerCase(s)
  IN  CASE l = "very_poor" -> 10 [] l = "poor" -> 30 [] l = "fair" -> 50
        [] l = "good" -> 70 [] l = "very_good" -> 90 [] OTHER -> DefaultScore

\* call.lead_score is a record [t, num, str, value, percent, score]:
\*   t = "none"  absent or null         t = "num"  a number (num)
\*   t = "str"   a string (str)         t = "obj"  an object with the fields
\*                                      value, percent, score ("" and 0: absent)
getScorePercent(call) ==
  LET leadScore == call.lead_score
  IN  CASE leadScore.t = "none" -> DefaultScore
        [] leadScore.t = "num" ->
             IF leadScore.num = 0 THEN DefaultScore ELSE leadScore.num
        [] leadScore.t = "str" ->
             IF leadScore.str = "" THEN DefaultScore
             ELSE ScoreOfString(leadScore.str)
        [] OTHER ->
             IF leadScore.percent # 0 THEN leadScore.percent
             ELSE IF leadScore.score # 0 THEN leadScore.score
             ELSE DefaultScore

\* getTier with scorePercent > 20 in place of scorePercent >= 20
getTierStrict(scorePercent) ==
  IF scorePercent >= 80 THEN "very_good"
  ELSE IF scorePercent >= 60 THEN "good"
  ELSE IF scorePercent >= 40 THEN "fair"
  ELSE IF scorePercent > 20 THEN "poor"
  ELSE "very_poor"

getTier(scorePercent) ==
  IF scorePercent >= 80 THEN "very_good"
  ELSE IF scorePercent >= 60 THEN "good"
  ELSE IF scorePercent >= 40 THEN "fair"
  ELSE IF scorePercent >= 20 THEN "poor"
  ELSE "very_poor"

\* ------------------------------------------------------------------------
\* detectProduct
\* ------------------------------------------------------------------------

Whitespace == {" "}

IsNumber(tok) == tok \in {"3", "5", "7", "10", "12", "15", "20", "25", "30",
                          "40", "50", "60", "75", "100", "007"}

\* t.name || t of one tag, as text.  A tag is [t, v]: a string v (t = "str")
\* or an object whose name is v (t = "obj"); an object without a name is
\* joined as "[object Object]".
TagText(tag) ==
  IF tag.t = "obj" /\ tag.v = <<>> THEN <<"[object Object]">> ELSE tag.v

RECURSIVE JoinTags(_)
\* (call.tags || []).map(t => t.name || t).join(' ')
JoinTags(tags) ==
  IF tags = <<>> THEN <<>>
  ELSE IF Len(tags) = 1 THEN TagText(tags[1])
  ELSE TagText(tags[1]) \o <<" ">> \o JoinTags(Tail(tags))

\* t.name of a null or undefined tag entry raises a TypeError.
TagsThrow(call) == \E i \in 1..Len(call.tags) : call.tags[i].t = "null"

\* call.transcription is [t, v]: absent (t = "none"), a string (t = "str") or
\* an object whose text is v (t = "obj").  The csv variant reads
\* transcription?.text || transcription || '', the sheets variant only
\* transcription?.text || ''.
TranscriptText(call, variant) ==
  LET tr == call.transcription
  IN  IF tr.t = "obj" /\ tr.v # <<>> THEN tr.v
      ELSE IF variant = "csv" /\ tr.t = "str" THEN tr.v
      ELSE IF variant = "csv" /\ tr.t = "obj" THEN <<"[object Object]">>
      ELSE <<>>

\* String.prototype.toLowerCase on a text
LowerText(raw) == [i \in 1..Len(raw) |-> ToLowerCase(raw[i])]

SearchText(call, variant) ==
  LowerText(TranscriptText(call, variant) \o <<" ">> \o call.note \o <<" ">>
            \o JoinTags(call.tags))

\* the first position at or after j that holds no whitespace (\s*)
SkipWs(txt, j) ==
  LET S == {k \in j..Len(txt) : txt[k] \notin Whitespace}
  IN  IF S = {} THEN Len(txt) + 1 ELSE Min(S)

\* txt[k] exists and is the word w
WordAt(txt, k, w) == k <= Len(txt) /\ txt[k] = w

\* the words of hpPatterns[p] stand at position k
UnitAt(p, txt, k) ==
  CASE p = 1 -> WordAt(txt, k, "hp")
    [] p = 2 -> \/ WordAt(txt, k, "horsepower")
                \/ /\ WordAt(txt, k, "horse")
                   /\ WordAt(txt, SkipWs(txt, k + 1), "power")
    [] OTHER -> WordAt(txt, k, "horsepower")

\* hpPatterns[p] matches with its number at position i
PatternAt(p, txt, i) ==
  IsNumber(txt[i]) /\ UnitAt(p, txt, SkipWs(txt, i + 1))

\* searchText.match(pattern): the number of the leftmost match, "" if none
PatternMatch(p, txt) ==
  LET S == {i \in 1..Len(txt) : PatternAt(p, txt, i)}
  IN  IF S = {} THEN "" ELSE txt[Min(S)]

\* CONFIG.products[hp] is truthy
InCatalog(hp) == hp \in DOMAIN Products /\ hp # "default"

\* the loop over hpPatterns
DetectIn(txt) ==
  LET hit == {p \in 1..3 : InCatalog(PatternMatch(p, txt))}
  IN  IF hit = {} THEN "default" ELSE PatternMatch(Min(hit), txt)

detectProduct(call, variant) == DetectIn(SearchText(call, variant))

\* ------------------------------------------------------------------------
\* normalizePhone
\* ------------------------------------------------------------------------

\* normalizePhone without replace(/\D/g, '')
normalizePhoneRaw(phone) ==
  IF phone = <<>> THEN <<"unknown">> ELSE LastN(phone, KeepDigits)

normalizePhone(phone) ==
  IF phone = <<>> THEN <<"unknown">>
  ELSE LastN(SelectSeq(phone, LAMBDA ch : ch \in Digits), KeepDigits)

\* ------------------------------------------------------------------------
\* calculateValue (sheets variant)
\* ------------------------------------------------------------------------

\* leadScore.value || 'unknown': only an object carries the field.
ScoreValue(call) ==
  IF call.lead_score.t = "obj" /\ call.lead_score.value # ""
  THEN call.lead_score.value ELSE "unknown"

\* leadScore.percent || 0
ScorePercentField(call) ==
  IF call.lead_score.t = "obj" THEN call.lead_score.percent ELSE 0

\* the if / else-if chain that maps the CallRail score to a tier
ValueTier(scoreValue, scorePercent) ==
  IF scoreValue = "very_poor" \/ scorePercent < 20 THEN "very_poor"
  ELSE IF scoreValue = "poor" \/ scorePercent < 40 THEN "poor"
  ELSE IF scoreValue = "fair" \/ scorePercent < 60 THEN "fair"
  ELSE IF scoreValue = "good" \/ scorePercent < 80 THEN "good"
  ELSE IF scoreValue = "very_good" \/ scorePercent >= 80 THEN "very_good"
  ELSE "poor"

\* ValueCents with Math.round(productPrice * multiplier) / 100
ValueCentsUnscaled(productPrice, multiplier) ==
  RoundDiv(productPrice * multiplier, 100)

\* Math.round(productPrice * multiplier * 100) / 100, in cents.  The product
\* price * multiplier * 100 is an integer that a double holds exactly.
ValueCents(productPrice, multiplier) == productPrice * multiplier

\* the value data of a call with this score and this detected product
ValueData(scoreValue, scorePercent, product) ==
  LET tier == ValueTier(scoreValue, scorePercent)
      productPrice == ProductPrice(product)
      multiplier == TierMultiplier(tier)
  IN  [value |-> ValueCents(productPrice, multiplier),
       tier |-> tier,
       leadScore |-> <<scoreValue, scorePercent>>,
       product |-> product,
       productPrice |-> productPrice,
       multiplier |-> multiplier]

calculateValue(call) ==
  ValueData(ScoreValue(call), ScorePercentField(call),
            detectProduct(call, "sheets"))

\* ------------------------------------------------------------------------
\* formatGoogleAdsTime
\* ------------------------------------------------------------------------

\* hours of a day on the wall clock
HoursPerDay == 24

\* the time zones of the function host: UTC, and Arizona (UTC-7)
HostOffsets == {0, 7}

\* formatGoogleAdsTime with new Date() in place of new Date(isoString)
formatGoogleAdsTimeNow(isoString, variant) ==
  [day |-> (clock - host) \div HoursPerDay,
   hours |-> (clock - host) % HoursPerDay,
   offset |-> IF variant = "csv" THEN "-0700" ELSE "-07:00"]

\* The date and the hour of the call's start time (an instant, in hours) on
\* the wall clock of the function host's time zone, followed by a fixed
\* offset text: "-0700" in the csv variant, "-07:00" in the sheets one.
formatGoogleAdsTime(isoString, variant) ==
  [day |-> (isoString - host) \div HoursPerDay,
   hours |-> (isoString - host) % HoursPerDay,
   offset |-> IF variant = "csv" THEN "-0700" ELSE "-07:00"]

\* ------------------------------------------------------------------------
\* for (const phone in callerGroups): the enumeration order of the keys
\* ------------------------------------------------------------------------

\* a and b are digit tuples of the same length and a < b
LexLess(a, b) ==
  \E i \in 1..Len(a) :
     /\ DigitVal(a[i]) < DigitVal(b[i])
     /\ \A j \in 1..(i - 1) : a[j] = b[j]

\* a < b as numbers, for digit tuples without leading zeros
NumLess(a, b) == Len(a) < Len(b) \/ (Len(a) = Len(b) /\ LexLess(a, b))

\* 2^32 - 2, the largest array index
MaxArrayIndex == <<"4", "2", "9", "4", "9", "6", "7", "2", "9", "4">>

\* A property key that is a canonical array index is enumerated before the
\* other keys, in ascending numeric order; the others in insertion order.
IsArrayIndex(key) ==
  /\ key # <<>>
  /\ \A i \in 1..Len(key) : key[i] \in Digits
  /\ Len(key) = 1 \/ key[1] # "0"
  /\ key = MaxArrayIndex \/ NumLess(key, MaxArrayIndex)

\* K: the keys of the object; before: the pairs <<a, b>> of keys with a
\* inserted before b.  The result: the keys in the order for...in visits
\* them.
ForInOrder(K, before) ==
  LET Ix == {k \in K : IsArrayIndex(k)}
      rank(k) ==
        IF k \in Ix
        THEN Cardinality({x \in Ix : NumLess(x, k)}) + 1
        ELSE Cardinality(Ix)
             + Cardinality({x \in K \ Ix : x # k /\ <<x, k>> \in before}) + 1
  IN  [r \in 1..Cardinality(K) |-> CHOOSE k \in K : rank(k) = r]

\* ------------------------------------------------------------------------
\* exports.handler of the csv variant: grouping and value distribution
\* ------------------------------------------------------------------------

\* The (total cents, group size) pairs, for the catalog and up to
\* MaxPages * PerPage calls, at which the double (totalValue / n) * 100
\* falls just below an exact half (447.49999999999994 for 223.75 / 50) and
\* Math.round rounds down where the exact quotient rounds up.
HalfDown ==
  {<<22375, 50>>, <<44750, 100>>, <<67125, 150>>, <<89500, 200>>,
   <<104625, 250>>, <<49875, 1750>>, <<187125, 50>>, <<299625, 2350>>,
   <<124875, 150>>, <<249750, 300>>, <<374625, 450>>, <<499500, 600>>,
   <<212375, 250>>, <<424750, 500>>, <<637125, 750>>, <<849500, 1000>>}

\* PerCallValue with Math.floor in place of Math.round
PerCallValueFloor(totalValue, n) == totalValue \div n

\* Math.round((totalValue / group.length) * 100) / 100, in cents
PerCallValue(totalValue, n) ==
  IF <<totalValue, n>> \in HalfDown
  THEN RoundDiv(totalValue, n) - 1
  ELSE RoundDiv(totalValue, n)

\* Identified without the test if (!gclid) continue
IdentifiedAll(calls) == calls

\* the calls for which extractGclid returns an identifier, in input order
Identified(calls) == SelectSeq(calls, LAMBDA c : extractGclid(c) # <<>>)

PhoneKey(call) == normalizePhone(call.customer_phone_number)

\* callerGroups[phone]
CallerGroup(calls, phone) ==
  SelectSeq(Identified(calls), LAMBDA c : PhoneKey(c) = phone)

\* Object.keys(callerGroups) as a set
GroupKeys(calls) ==
  LET ident == Identified(calls)
  IN  {PhoneKey(ident[i]) : i \in 1..Len(ident)}

\* the keys of callerGroups in the order the processing loop visits them
GroupOrder(calls) ==
  LET ident == Identified(calls)
      keys == GroupKeys(calls)
      before ==
        {ab \in keys \X keys :
           PhoneKey(Head(SelectSeq(ident, LAMBDA c : PhoneKey(c) \in {ab[1], ab[2]})))
             = ab[1]}
  IN  ForInOrder(keys, before)

\* BestScore with the score of the group's first call
BestScoreFirst(group) == getScorePercent(group[1])

\* the best lead score of a group: starts at 0, raised by every larger score
BestScore(group) ==
  Max({0} \cup {getScorePercent(group[i]) : i \in 1..Len(group)})

\* the product of the last of these calls, 'default' if there is none
LastProduct(hits) ==
  IF hits = <<>> THEN "default" ELSE detectProduct(hits[Len(hits)], "csv")

\* the last detection in the group that is not 'default'
BestProduct(group) ==
  LastProduct(SelectSeq(group, LAMBDA c : detectProduct(c, "csv") # "default"))

\* tier, price and total value for a best score and a best product
TotalValue(bestScore, bestProduct) ==
  LET tier == getTier(bestScore)
      multiplier == TierMultiplier(tier)
      productPrice == ProductPrice(bestProduct)
  IN  [bestScore |-> bestScore,
       bestProduct |-> bestProduct,
       tier |-> tier,
       productPrice |-> productPrice,
       totalValue |-> ValueCents(productPrice, multiplier)]

\* tier, product, price and total value of one caller group
GroupValue(group) == TotalValue(BestScore(group), BestProduct(group))

\* conversions.push({...}) of the csv variant
CsvConversion(call, gv, perCallValue) ==
  [gclid |-> extractGclid(call),
   conversionTime |-> formatGoogleAdsTime(call.start_time, "csv"),
   conversionValue |-> perCallValue,
   currency |-> "USD",
   callId |-> call.id,
   tier |-> gv.tier,
   product |-> gv.bestProduct,
   productPrice |-> gv.productPrice,
   leadScore |-> gv.bestScore]

\* Distribute with totalValue < 0 in place of totalValue <= 0
DistributeStrict(acc, group, gv) ==
  IF gv.totalValue < 0
  THEN [acc EXCEPT !.stats.zeroValue = @ + Len(group)]
  ELSE [conversions |->
          acc.conversions
          \o [i \in 1..Len(group) |->
                CsvConversion(group[i], gv,
                              PerCallValue(gv.totalValue, Len(group)))],
        stats |->
          [acc.stats EXCEPT
             !.withValue = @ + Len(group),
             !.totalValue =
               @ + Len(group) * PerCallValue(gv.totalValue, Len(group))]]

\* the zero-value branch or the split of gv.totalValue over the group
Distribute(acc, group, gv) ==
  LET n == Len(group)
      perCallValue == PerCallValue(gv.totalValue, n)
  IN  IF gv.totalValue <= 0
      THEN [acc EXCEPT !.stats.zeroValue = @ + n]
      ELSE [conversions |->
              acc.conversions
              \o [i \in 1..n |-> CsvConversion(group[i], gv, perCallValue)],
            stats |->
              [acc.stats EXCEPT !.withValue = @ + n,
                                !.totalValue = @ + n * perCallValue]]

\* one iteration of the loop over callerGroups: acc is [conversions, stats]
ProcessGroup(acc, group) == Distribute(acc, group, GroupValue(group))

RECURSIVE ProcessGroups(_, _, _, _)
\* the loop over callerGroups, from the k-th key of order on
ProcessGroups(calls, order, k, acc) ==
  IF k > Len(order) THEN acc
  ELSE ProcessGroups(calls, order, k + 1,
                     ProcessGroup(acc, CallerGroup(calls, order[k])))

\* CsvPipeline with stats.withGclid++ ahead of the test if (!gclid) continue
CsvPipelineCountAll(calls) ==
  ProcessGroups(calls, GroupOrder(calls), 1,
    [conversions |-> <<>>,
     stats |-> [totalCalls |-> Len(calls),
                withGclid |-> Len(calls),
                withValue |-> 0,
                zeroValue |-> 0,
                totalValue |-> 0]])

\* conversions and stats of the csv variant for the fetched calls
CsvPipeline(calls) ==
  ProcessGroups(calls, GroupOrder(calls), 1,
    [conversions |-> <<>>,
     stats |-> [totalCalls |-> Len(calls),
                withGclid |-> Len(Identified(calls)),
                withValue |-> 0,
                zeroValue |-> 0,
                totalValue |-> 0]])

\* detectProduct raises for some call the group loop reaches
CsvThrows(calls) ==
  LET ident == Identified(calls)
  IN  \E i \in 1..Len(ident) : TagsThrow(ident[i])

\* ------------------------------------------------------------------------
\* exports.handler of the sheets variant: per-call valuation
\* ------------------------------------------------------------------------

\* conversions.push({...}) of the sheets variant
SheetsConversion(call, valueData) ==
  [gclid |-> extractGclid(call),
   conversionTime |-> formatGoogleAdsTime(call.start_time, "sheets"),
   conversionValue |-> valueData.value,
   currency |-> "USD",
   callId |-> call.id,
   tier |-> valueData.tier,
   product |-> valueData.product,
   productPrice |-> valueData.productPrice,
   leadScore |-> valueData.leadScore]

RECURSIVE SumValues(_, _)
\* stats.totalValue += valueData.value over the first k conversions
SumValues(convs, k) ==
  IF k = 0 THEN 0 ELSE convs[k].conversionValue + SumValues(convs, k - 1)

\* the conversions pushed for the calls whose value is above 0
SheetsConversions(valued) ==
  [i \in 1..Len(valued) |-> SheetsConversion(valued[i], calculateValue(valued[i]))]

\* the result of the loop: ident are the calls with an identifier, convs
\* the conversions pushed
SheetsResult(calls, ident, convs) ==
  [conversions |-> convs,
   stats |-> [totalCalls |-> Len(calls),
              withGclid |-> Len(ident),
              withValue |-> Len(convs),
              zeroValue |-> Len(ident) - Len(convs),
              totalValue |-> SumValues(convs, Len(convs))]]

\* conversions and stats of the sheets variant for the fetched calls
SheetsPipeline(calls) ==
  SheetsResult(calls, Identified(calls),
    SheetsConversions(
      SelectSeq(Identified(calls), LAMBDA c : calculateValue(c).value > 0)))

SheetsThrows(calls) ==
  LET ident == Identified(calls)
  IN  \E i \in 1..Len(ident) : TagsThrow(ident[i])

Pipeline(variant, calls) ==
  IF variant = "csv" THEN CsvPipeline(calls) ELSE SheetsPipeline(calls)

PipelineThrows(variant, calls) ==
  IF variant = "csv" THEN CsvThrows(calls) ELSE SheetsThrows(calls)

\* ------------------------------------------------------------------------
\* Call records and the call source
\* ------------------------------------------------------------------------

NoScore == [t |-> "none", num |-> 0, str |-> "", value |-> "", percent |-> 0,
            score |-> 0]

NumScore(n) == [NoScore EXCEPT !.t = "num", !.num = n]

StrScore(s) == [NoScore EXCEPT !.t = "str", !.str = s]

ObjScore(v, p, sc) ==
  [NoScore EXCEPT !.t = "obj", !.value = v, !.percent = p, !.score = sc]

NoTranscript == [t |-> "none", v |-> <<>>]

\* "(555) 123-4567"
PhoneA ==
  <<"(", "5", "5", "5", ")", " ", "1", "2", "3", "-", "4", "5", "6", "7">>

\* "555.123.4567"
PhoneA2 == <<"5", "5", "5", ".", "1", "2", "3", ".", "4", "5", "6", "7">>

\* "+1 415-555-0100": its key 4155550100 is an array index
PhoneB ==
  <<"+", "1", " ", "4", "1", "5", "-", "5", "5", "5", "-", "0", "1", "0", "0">>

\* a call record as the provider's JSON carries it (the fields the code reads)
CallRecord(gclid, url, phone, score, transcription, note, tags, start) ==
  [id |-> 0, gclid |-> gclid, landing_page_url |-> url,
   customer_phone_number |-> phone, lead_score |-> score,
   transcription |-> transcription, note |-> note, tags |-> tags,
   start_time |-> start]

\* The contents of the call records the provider's pages are drawn from.
CallTable ==
  << \* 1: direct identifier, score 85, "wants the 10 hp"
     CallRecord(<<"G1">>, <<>>, PhoneA, NumScore(85), NoTranscript,
                <<"wants", " ", "the", " ", "10", "hp">>, <<>>, 23),
     \* 2: identifier in the landing page URL, score "Good", same caller
     CallRecord(<<>>, <<"site", "?", "utm", "&", "gclid=", "G2", "&", "x">>,
                PhoneA2, StrScore("Good"), NoTranscript, <<>>, <<>>, 26),
     \* 3: no identifier (an empty gclid parameter), score 90, "25 hp"
     CallRecord(<<>>, <<"site", "?", "gclid=", "&", "x">>, PhoneA,
                NumScore(90), NoTranscript, <<"25", "hp">>, <<>>, 29),
     \* 4: no identifier at all, second caller, "100 HP" in a tag
     CallRecord(<<>>, <<>>, PhoneB, NumScore(95), NoTranscript, <<>>,
                <<[t |-> "str", v |-> <<"100", " ", "HP">>]>>, 32),
     \* 5: second caller, score 10: worth nothing
     CallRecord(<<"G3">>, <<>>, PhoneB, NumScore(10), NoTranscript, <<>>,
                <<>>, 35),
     \* 6: second caller, structured score without percent, string transcript
     CallRecord(<<"G4">>, <<>>, PhoneB, ObjScore("", 0, 45),
                [t |-> "str", v |-> <<"7", " ", "horse", " ", "power">>],
                <<>>, <<>>, 38),
     \* 7: no phone, structured score, "25 Horsepower" in a structured tag
     CallRecord(<<"G5">>, <<>>, <<>>, ObjScore("good", 70, 0), NoTranscript,
                <<>>, <<[t |-> "obj", v |-> <<"25", " ", "Horsepower">>]>>, 41),
     \* 8: no phone, no score, a null entry in the tag list
     CallRecord(<<"G6">>, <<>>, <<>>, NoScore, NoTranscript, <<>>,
                <<[t |-> "null", v |-> <<>>]>>, 44),
     \* 9: one caller ringing again and again, score 85, "10 hp"
     CallRecord(<<"G1">>, <<>>, PhoneA, NumScore(85), NoTranscript,
                <<"10", "hp">>, <<>>, 47),
     \* 10: no phone, no score (30, poor), "75 hp": 2123.75 to split
     CallRecord(<<"G7">>, <<>>, <<>>, NoScore, NoTranscript,
                <<"75", "hp">>, <<>>, 50),
     \* 11: no identifier
     CallRecord(<<>>, <<>>, PhoneB, NumScore(90), NoTranscript, <<>>, <<>>,
                53) >>

\* the records a short page is drawn from
TailShapes == {1, 2, 3, 4, 5, 6, 7, 8}

\* the records that fill the provider's full pages
FillerShapes == {9, 10, 11}

\* the records of a short page that follows full pages
BigTailShapes == {2, 5}

\* The state holds a fetched record as its id and the index of its contents
\* in CallTable; the code sees the whole record.
CallOf(ref) == [CallTable[ref.shape] EXCEPT !.id = ref.id]

CallsOf(refs) == [i \in 1..Len(refs) |-> CallOf(refs[i])]

\* the largest number of full pages the provider holds
MaxFullPages == 11

\* the largest number of calls on the provider's only page
MaxTail == 2

SeqsUpTo(S, n) == UNION {[1..k -> S] : k \in 0..n}

\* The provider's holdings for the requested window: `full` pages of PerPage
\* records with the contents `filler`, then the short page `tail`.
ProviderData ==
  {[full |-> 0, filler |-> 9, tail |-> t] : t \in SeqsUpTo(TailShapes, MaxTail)}
  \cup
  {[full |-> n, filler |-> f, tail |-> t] :
     n \in 1..MaxFullPages, f \in FillerShapes,
     t \in SeqsUpTo(BigTailShapes, 1)}

\* the records of the provider's page p; ids number the records
ProviderPage(prov, p) ==
  IF p <= prov.full
  THEN [i \in 1..PerPage |-> [id |-> (p - 1) * PerPage + i, shape |-> prov.filler]]
  ELSE IF p = prov.full + 1
  THEN [i \in 1..Len(prov.tail) |->
          [id |-> prov.full * PerPage + i, shape |-> prov.tail[i]]]
  ELSE <<>>

RECURSIVE ProviderPages(_, _)
\* the provider's pages 1..p, concatenated
ProviderPages(prov, p) ==
  IF p = 0 THEN <<>> ELSE ProviderPages(prov, p - 1) \o ProviderPage(prov, p)

\* the number of pages the provider holds
ProviderPageCount(prov) == prov.full + (IF prov.tail = <<>> THEN 0 ELSE 1)

\* ------------------------------------------------------------------------
\* State
\* ------------------------------------------------------------------------

\* Two invocations: the scheduler's runs may follow each other or overlap.
Invocations == {1, 2}

NoStats == [totalCalls |-> 0, withGclid |-> 0, withValue |-> 0,
            zeroValue |-> 0, totalValue |-> 0]

\* error is error.message of the catch block: "" (none), "CallRail API error",
\* "TypeError" (a null tag entry) or "Sheets API error".
NoResponse == [statusCode |-> 0, success |-> FALSE, error |-> "",
               conversions |-> <<>>, stats |-> NoStats, rowsWritten |-> 0,
               endDate |-> 0]

\* An invocation that has not started.
\*   pc          "idle", "fetch" (awaiting a page), "process" (the calls are
\*               back), "write" (awaiting the append), "done" (returned)
\*   page, allCalls   the locals of fetchAllCalls
\*   requested   the requests sent so far: the page asked for (0 for a
\*               request that names no page) and whether the response was ok
\*   calls, conversions, stats   the locals of the handler
\*   response    what the handler returned
\*   appends     how often the invocation appended to the sheet
Idle ==
  [pc |-> "idle", variant |-> "csv", method |-> "GET", dryRun |-> FALSE,
   endDate |-> 0, page |-> 1, allCalls |-> <<>>, requested |-> <<>>,
   calls |-> <<>>, conversions |-> <<>>, stats |-> NoStats,
   response |-> NoResponse, appends |-> 0]

\* No function is being probed.
NoProbe == [op |-> "none", p |-> 0, q |-> 0, product |-> "default",
            score |-> 0, n |-> 0, lead |-> NoScore, leads |-> <<>>,
            text |-> <<>>, tierP |-> "", tierQ |-> "", total |-> 0,
            perCall |-> 0, best |-> 0, detected |-> "", done |-> FALSE]

\* Over a provider of one short page the scheduler triggers up to two
\* invocations, over a larger one a single invocation.
Init ==
  /\ provider \in ProviderData
  /\ budget = IF provider.full = 0 THEN 2 ELSE 1
  /\ clock = 1
  /\ host \in HostOffsets
  /\ inv = [i \in Invocations |-> Idle]
  /\ sheet = <<>>
  /\ probe = NoProbe

\* ------------------------------------------------------------------------
\* exports.handler
\* ------------------------------------------------------------------------

\* The catch block: a single error result, nothing else kept.
ErrorResponse(message, endDate) ==
  [NoResponse EXCEPT !.statusCode = 500, !.error = message, !.endDate = endDate]

\* An OPTIONS request is answered at once with 204.
Options(i) ==
  /\ inv[i].pc = "idle"
  /\ budget > 0
  /\ \A j \in 1..(i - 1) : inv[j].pc # "idle"
  /\ inv' = [inv EXCEPT ![i] =
               [Idle EXCEPT !.pc = "done", !.method = "OPTIONS",
                            !.response = [NoResponse EXCEPT !.statusCode = 204]]]
  /\ budget' = budget - 1
  /\ UNCHANGED <<host, provider, clock, sheet, probe>>

\* The handler starts: it reads its parameters and the clock and calls the
\* fetch function, which issues its first request.
Invoke(i) ==
  /\ inv[i].pc = "idle"
  /\ budget > 0
  /\ \A j \in 1..(i - 1) : inv[j].pc # "idle"
  /\ \E variant \in {"csv", "sheets"}, dryRun \in BOOLEAN :
       /\ variant = "csv" => ~dryRun
       /\ inv' = [inv EXCEPT ![i] =
                    [Idle EXCEPT !.pc = "fetch", !.variant = variant,
                                 !.dryRun = dryRun, !.endDate = clock]]
  /\ budget' = budget - 1
  /\ clock' = clock + 1
  /\ UNCHANGED <<host, provider, sheet, probe>>

\* one entry of requested
Request(page, ok) == [page |-> page, ok |-> ok]

\* AfterPage with page > 10 in place of page >= 10
AfterPageLateCeiling(v, calls) ==
  IF Len(calls) < PerPage \/ v.page > MaxPages
  THEN [v EXCEPT !.pc = "process",
                 !.allCalls = <<>>,
                 !.requested = Append(v.requested, Request(v.page, TRUE)),
                 !.calls = v.allCalls \o calls]
  ELSE [v EXCEPT !.page = v.page + 1,
                 !.allCalls = v.allCalls \o calls,
                 !.requested = Append(v.requested, Request(v.page, TRUE))]

\* The invocation after page v.page came back with these calls.
AfterPage(v, calls) ==
  IF Len(calls) < PerPage \/ v.page >= MaxPages
  THEN [v EXCEPT !.pc = "process",
                 !.allCalls = <<>>,
                 !.requested = Append(v.requested, Request(v.page, TRUE)),
                 !.calls = v.allCalls \o calls]
  ELSE [v EXCEPT !.page = v.page + 1,
                 !.allCalls = v.allCalls \o calls,
                 !.requested = Append(v.requested, Request(v.page, TRUE))]

\* fetchAllCalls: one turn of the while loop whose response is ok.
FetchPageCsv(i) ==
  /\ inv[i].pc = "fetch"
  /\ inv[i].variant = "csv"
  /\ inv' = [inv EXCEPT ![i] =
               AfterPage(inv[i], ProviderPage(provider, inv[i].page))]
  /\ UNCHANGED <<host, provider, budget, clock, sheet, probe>>

\* fetchCallRailCalls: a single request that names no page; the provider
\* answers with its first page.
FetchPageSheets(i) ==
  /\ inv[i].pc = "fetch"
  /\ inv[i].variant = "sheets"
  /\ inv' = [inv EXCEPT ![i].pc = "process",
                        ![i].requested =
                          Append(inv[i].requested, Request(0, TRUE)),
                        ![i].calls = ProviderPage(provider, 1)]
  /\ UNCHANGED <<host, provider, budget, clock, sheet, probe>>

\* FetchFail with the failed request sent again
FetchFailRetry(i) ==
  /\ inv[i].pc = "fetch"
  /\ Len(inv[i].requested) < MaxPages
  /\ inv' = [inv EXCEPT ![i].requested =
                          Append(inv[i].requested,
                                 Request(IF inv[i].variant = "csv"
                                         THEN inv[i].page ELSE 0, FALSE))]
  /\ UNCHANGED <<host, provider, budget, clock, sheet, probe>>

\* The response is not ok: the fetch function throws, the handler's catch
\* block returns the error.
FetchFail(i) ==
  /\ inv[i].pc = "fetch"
  /\ inv' = [inv EXCEPT ![i].pc = "done",
                        ![i].allCalls = <<>>,
                        ![i].requested =
                          Append(inv[i].requested,
                                 Request(IF inv[i].variant = "csv"
                                         THEN inv[i].page ELSE 0, FALSE)),
                        ![i].response =
                          ErrorResponse("CallRail API error", inv[i].endDate)]
  /\ UNCHANGED <<host, provider, budget, clock, sheet, probe>>

\* The synchronous part of the handler after the fetch: extraction, grouping
\* or per-call valuation, statistics, and the return or the call of the sink.
\* The invocation after the pipeline produced out: the sheets variant goes
\* on to the sink unless dry_run is set or nothing was produced; otherwise
\* the handler returns.
\* AfterPipeline without the test !dryRun
AfterPipelineAlways(v, out) ==
  IF v.variant = "sheets" /\ Len(out.conversions) > 0
  THEN [v EXCEPT !.pc = "write",
                 !.conversions = out.conversions,
                 !.stats = out.stats]
  ELSE [v EXCEPT !.pc = "done",
                 !.response = [statusCode |-> 200,
                               success |-> TRUE,
                               error |-> "",
                               conversions |-> out.conversions,
                               stats |-> out.stats,
                               rowsWritten |-> 0,
                               endDate |-> v.endDate]]

AfterPipeline(v, out) ==
  IF v.variant = "sheets" /\ ~v.dryRun /\ Len(out.conversions) > 0
  THEN [v EXCEPT !.pc = "write",
                 !.conversions = out.conversions,
                 !.stats = out.stats]
  ELSE [v EXCEPT !.pc = "done",
                 !.response = [statusCode |-> 200,
                               success |-> TRUE,
                               error |-> "",
                               conversions |-> out.conversions,
                               stats |-> out.stats,
                               rowsWritten |-> 0,
                               endDate |-> v.endDate]]

Process(i) ==
  /\ inv[i].pc = "process"
  /\ IF PipelineThrows(inv[i].variant, CallsOf(inv[i].calls))
     THEN inv' = [inv EXCEPT ![i].pc = "done",
                             ![i].response =
                               ErrorResponse("TypeError", inv[i].endDate)]
     ELSE inv' = [inv EXCEPT ![i] =
                    AfterPipeline(inv[i], Pipeline(inv[i].variant,
                                                   CallsOf(inv[i].calls)))]
  /\ UNCHANGED <<host, provider, budget, clock, sheet, probe>>

\* one row of the sheet: the conversion's columns and the time of the sync
SheetRow(c, syncedAt) ==
  [gclid |-> c.gclid, conversionTime |-> c.conversionTime,
   conversionValue |-> c.conversionValue, currency |-> c.currency,
   callId |-> c.callId, leadScore |-> c.leadScore,
   tier |-> c.tier, detectedProduct |-> c.product, syncedAt |-> syncedAt]

\* conversions.map(c => [...]): one row per conversion
SheetRows(conversions, syncedAt) ==
  [k \in 1..Len(conversions) |-> SheetRow(conversions[k], syncedAt)]

\* writeToGoogleSheets that leaves out the conversions of calls the sheet
\* already holds a row for
writeToGoogleSheetsNew(i) ==
  /\ inv[i].pc = "write"
  /\ sheet' = sheet \o SheetRows(
                 SelectSeq(inv[i].conversions,
                           LAMBDA c : \A k \in 1..Len(sheet) :
                                         sheet[k].callId # c.callId),
                 clock)
  /\ inv' = [inv EXCEPT ![i].pc = "done",
                        ![i].conversions = <<>>,
                        ![i].stats = NoStats,
                        ![i].appends = inv[i].appends + 1,
                        ![i].response =
                          [statusCode |-> 200,
                           success |-> TRUE,
                           error |-> "",
                           conversions |-> inv[i].conversions,
                           stats |-> inv[i].stats,
                           rowsWritten |-> Len(inv[i].conversions),
                           endDate |-> inv[i].endDate]]
  /\ clock' = clock + 1
  /\ UNCHANGED <<host, provider, budget, probe>>

\* writeToGoogleSheets: the append succeeds.
writeToGoogleSheets(i) ==
  /\ inv[i].pc = "write"
  /\ sheet' = sheet \o SheetRows(inv[i].conversions, clock)
  /\ inv' = [inv EXCEPT ![i].pc = "done",
                        ![i].conversions = <<>>,
                        ![i].stats = NoStats,
                        ![i].appends = inv[i].appends + 1,
                        ![i].response =
                          [statusCode |-> 200,
                           success |-> TRUE,
                           error |-> "",
                           conversions |-> inv[i].conversions,
                           stats |-> inv[i].stats,
                           rowsWritten |-> Len(inv[i].conversions),
                           endDate |-> inv[i].endDate]]
  /\ clock' = clock + 1
  /\ UNCHANGED <<host, provider, budget, probe>>

\* writeToGoogleSheets: the append is rejected, the handler's catch block
\* returns the error.
WriteFail(i) ==
  /\ inv[i].pc = "write"
  /\ inv' = [inv EXCEPT ![i].pc = "done",
                        ![i].conversions = <<>>,
                        ![i].stats = NoStats,
                        ![i].response =
                          ErrorResponse("Sheets API error", inv[i].endDate)]
  /\ UNCHANGED <<host, provider, budget, clock, sheet, probe>>

Next ==
  \E i \in Invocations :
     \/ Options(i)
     \/ Invoke(i)
     \/ FetchPageCsv(i)
     \/ FetchPageSheets(i)
     \/ FetchFail(i)
     \/ Process(i)
     \/ writeToGoogleSheets(i)
     \/ WriteFail(i)

Spec == Init /\ [][Next]_vars

\* ------------------------------------------------------------------------
\* The pure functions on their own: Init draws the inputs, one action per
\* function applies it.
\* ------------------------------------------------------------------------

\* how far below 0 and above 100 the probed percentages reach
ScoreSlack == 10

Percentages == (0 - ScoreSlack)..(100 + ScoreSlack)

\* one best score for every tier
TierScores == {10, 30, 50, 70, 90}

\* the largest caller group: every fetched call from one caller
MaxGroup == MaxPages * PerPage

\* getTier is probed at a pair of percentages
GetTierProbe(a, b) == [NoProbe EXCEPT !.op = "getTier", !.p = a, !.q = b]

\* the split is probed at a product, a best score and a group size
SplitProbe(k, sc, m) ==
  [NoProbe EXCEPT !.op = "split", !.product = k, !.score = sc, !.n = m]

\* The shapes of call.lead_score: absent, a number, a string, an object
\* with the fields value, percent and score.
LeadScores ==
  {NoScore}
  \cup {NumScore(n) : n \in Percentages}
  \cup {StrScore(s) : s \in {"", "Good", "VERY_GOOD", "fair", "bogus"}}
  \cup {ObjScore(v, pc, sc) :
          v \in {"", "good"}, pc \in {0, 70, 100 + ScoreSlack}, sc \in {0, 45}}

\* the lead scores the calls of a probed caller group carry
GroupScores ==
  {NoScore, NumScore(0 - ScoreSlack), NumScore(15), NumScore(85),
   NumScore(100 + ScoreSlack), StrScore("Good"), ObjScore("", 0, 45)}

\* the largest probed caller group
MaxProbeGroup == 2

\* Call texts: none, one mention of a catalog size with each of the units,
\* a size that is no catalog key, and several mentions.
Texts ==
  {<<>>,
   <<"wants", " ", "the", " ", "10", "hp">>,
   <<"25", " ", "horse", " ", "power">>,
   <<"40", "Horsepower">>,
   <<"12", " ", "hp">>,
   <<"has", " ", "12", " ", "hp", " ", "wants", " ", "25", " ", "hp">>,
   <<"12", " ", "hp", " ", "or", " ", "30", " ", "horsepower">>,
   <<"50", " ", "horsepower", " ", "or", " ", "20", "hp">>,
   <<"007", " ", "hp">>,
   <<"75", " ", "units">>}

\* getScorePercent is probed at a lead score
ScoreProbe(l) == [NoProbe EXCEPT !.op = "score", !.lead = l]

\* the bestScore loop is probed at the lead scores of a group's calls
BestProbe(ls) == [NoProbe EXCEPT !.op = "best", !.leads = ls]

\* detectProduct is probed at a call note
DetectProbe(t) == [NoProbe EXCEPT !.op = "detect", !.text = t]

FnInit ==
  /\ provider = [full |-> 0, filler |-> 9, tail |-> <<>>]
  /\ budget = 0
  /\ clock = 1
  /\ host = 0
  /\ inv = [i \in Invocations |-> Idle]
  /\ sheet = <<>>
  /\ \/ \E a \in Percentages, b \in Percentages : probe = GetTierProbe(a, b)
     \/ \E k \in DOMAIN Products, sc \in TierScores, m \in 1..MaxGroup :
          probe = SplitProbe(k, sc, m)
     \/ \E l \in LeadScores : probe = ScoreProbe(l)
     \/ \E m \in 1..MaxProbeGroup :
          \E ls \in [1..m -> GroupScores] : probe = BestProbe(ls)
     \/ \E t \in Texts : probe = DetectProbe(t)

\* getTier applied to the two percentages
ApplyGetTier ==
  /\ probe.op = "getTier"
  /\ ~probe.done
  /\ probe' = [probe EXCEPT !.tierP = getTier(probe.p),
                            !.tierQ = getTier(probe.q),
                            !.done = TRUE]
  /\ UNCHANGED <<host, provider, budget, clock, inv, sheet>>

\* the total value of a group and its split over n calls
ApplySplit ==
  /\ probe.op = "split"
  /\ ~probe.done
  /\ probe' = [probe EXCEPT
                 !.tierP = TotalValue(probe.score, probe.product).tier,
                 !.total = TotalValue(probe.score, probe.product).totalValue,
                 !.perCall =
                   PerCallValue(TotalValue(probe.score, probe.product).totalValue,
                                probe.n),
                 !.done = TRUE]
  /\ UNCHANGED <<host, provider, budget, clock, inv, sheet>>

\* getScorePercent applied to a call with the lead score
ApplyScore ==
  /\ probe.op = "score"
  /\ ~probe.done
  /\ probe' = [probe EXCEPT
                 !.p = getScorePercent([lead_score |-> probe.lead]),
                 !.done = TRUE]
  /\ UNCHANGED <<host, provider, budget, clock, inv, sheet>>

\* the calls of a group that carry these lead scores
ScoredCalls(leads) == [k \in 1..Len(leads) |-> [lead_score |-> leads[k]]]

\* the bestScore loop over the calls of a group, and the tier of its result
ApplyBest ==
  /\ probe.op = "best"
  /\ ~probe.done
  /\ probe' = [probe EXCEPT
                 !.best = BestScore(ScoredCalls(probe.leads)),
                 !.tierP = getTier(BestScore(ScoredCalls(probe.leads))),
                 !.done = TRUE]
  /\ UNCHANGED <<host, provider, budget, clock, inv, sheet>>

\* a call whose note is the text, without transcription and tags
NotedCall(text) == [transcription |-> NoTranscript, note |-> text, tags |-> <<>>]

\* detectProduct applied to a call with the note
ApplyDetect ==
  /\ probe.op = "detect"
  /\ ~probe.done
  /\ probe' = [probe EXCEPT
                 !.detected = detectProduct(NotedCall(probe.text), "csv"),
                 !.done = TRUE]
  /\ UNCHANGED <<host, provider, budget, clock, inv, sheet>>

FnNext ==
  \/ ApplyGetTier
  \/ ApplySplit
  \/ ApplyScore
  \/ ApplyBest
  \/ ApplyDetect

FnSpec == FnInit /\ [][FnNext]_vars

\* ------------------------------------------------------------------------
\* Properties
\* ------------------------------------------------------------------------

\* the handler returned 200
Succeeded(i) == inv[i].pc = "done" /\ inv[i].response.statusCode = 200

\* the fetch function returned its calls to the handler
FetchReturned(i) ==
  \/ inv[i].pc \in {"process", "write"}
  \/ /\ inv[i].pc = "done"
     /\ inv[i].method = "GET"
     /\ inv[i].response.error # "CallRail API error"

\* some page request of the invocation came back with a non-success status
PageFailed(v) == \E k \in 1..Len(v.requested) : ~v.requested[k].ok

\* no non-empty direct gclid field and no gclid parameter with a value in
\* the landing page URL
Unidentified(call) ==
  /\ call.gclid = <<>>
  /\ \A k \in 1..Len(call.landing_page_url) :
        ~ /\ call.landing_page_url[k] \in {"?", "&"}
          /\ k + 2 <= Len(call.landing_page_url)
          /\ call.landing_page_url[k + 1] = "gclid="
          /\ call.landing_page_url[k + 2] # "&"

\* the ids of these calls
IdsOf(calls) == {calls[k].id : k \in 1..Len(calls)}

RECURSIVE WeightedSum(_)
\* the sum of value * count over a set of <<value, count>> pairs
WeightedSum(S) ==
  IF S = {} THEN 0
  ELSE LET x == CHOOSE y \in S : TRUE
       IN  x[1] * x[2] + WeightedSum(S \ {x})

\* the sum of the conversion values of these conversions
ValueSum(convs) ==
  WeightedSum({<<v, Len(SelectSeq(convs, LAMBDA c : c.conversionValue = v))>> :
                 v \in {convs[k].conversionValue : k \in 1..Len(convs)}})

\* C1: at the end of every successful run of either variant the counters
\* reconcile: withGclid = withValue + zeroValue, and totalCalls = withGclid +
\* the number of fetched calls from which no identifier could be extracted.
C1_CountersReconcile ==
  \A i \in Invocations :
     Succeeded(i) =>
       LET st == inv[i].response.stats
           calls == CallsOf(inv[i].calls)
           lacking == Len(SelectSeq(calls, LAMBDA c : extractGclid(c) = <<>>))
       IN  /\ st.totalCalls = Len(calls)
           /\ st.withGclid = st.withValue + st.zeroValue
           /\ st.totalCalls = st.withGclid + lacking

\* Both variants have finished a run over calls of which one has a value and
\* one lacks an identifier.
C1_Witness ==
  \E i, j \in Invocations :
     /\ Succeeded(i) /\ inv[i].variant = "csv"
     /\ Succeeded(j) /\ inv[j].variant = "sheets"
     /\ inv[i].response.stats.withValue > 0
     /\ inv[j].response.stats.withValue > 0
     /\ inv[i].response.stats.totalCalls > inv[i].response.stats.withGclid
     /\ inv[j].response.stats.totalCalls > inv[j].response.stats.withGclid

\* C2: in the csv variant every caller group whose totalValue is above 0
\* gets exactly one conversion per call, and all of them carry the group's
\* total divided by the group size and rounded to the cent, the group's tier
\* and the group's product.
C2_OneEqualShare ==
  \A i \in Invocations :
     (Succeeded(i) /\ inv[i].variant = "csv") =>
       LET calls == CallsOf(inv[i].calls)
           convs == inv[i].response.conversions
       IN  \A key \in GroupKeys(calls) :
              LET group == CallerGroup(calls, key)
                  gv == GroupValue(group)
                  ids == IdsOf(group)
                  mine == SelectSeq(convs, LAMBDA c : c.callId \in ids)
              IN  gv.totalValue > 0 =>
                    /\ Len(mine) = Len(group)
                    /\ \A k \in 1..Len(group) :
                          /\ mine[k].callId = group[k].id
                          /\ mine[k].conversionValue
                               = RoundDiv(gv.totalValue, Len(group))
                          /\ mine[k].tier = gv.tier
                          /\ mine[k].product = gv.bestProduct

\* C3: for every product, tier and group size with a total above 0, the sum
\* of the per-call values of the group (n equal shares) differs from the
\* total by at most n * 0.005, that is, twice the difference in cents is at
\* most n.
C3_SplitWithinHalfCent ==
  (probe.op = "split" /\ probe.done /\ probe.total > 0) =>
    2 * Abs(probe.n * probe.perCall - probe.total) <= probe.n

\* A split over more than one call whose shares miss the total by exactly
\* half a cent per call.
C3_Witness ==
  /\ probe.op = "split" /\ probe.done /\ probe.total > 0
  /\ probe.n > 1
  /\ 2 * Abs(probe.n * probe.perCall - probe.total) = probe.n

\* C4: a call without an extractable identifier produces no conversion, is
\* counted in none of withGclid, withValue, zeroValue, is in no caller group,
\* and the run's conversions and counters are those of the same run without
\* the call.
C4_UnidentifiedInvisible ==
  \A i \in Invocations :
     Succeeded(i) =>
       LET calls == CallsOf(inv[i].calls)
           kept == SelectSeq(calls, LAMBDA c : ~Unidentified(c))
           dropped == IdsOf(SelectSeq(calls, Unidentified))
           r == inv[i].response
           ref == Pipeline(inv[i].variant, kept)
       IN  /\ \A k \in 1..Len(r.conversions) : r.conversions[k].callId \notin dropped
           /\ r.stats.withGclid = Len(kept)
           /\ r.stats.withValue + r.stats.zeroValue = Len(kept)
           /\ r.conversions = ref.conversions
           /\ r.stats.withValue = ref.stats.withValue
           /\ r.stats.zeroValue = ref.stats.zeroValue
           /\ r.stats.totalValue = ref.stats.totalValue
           /\ inv[i].variant = "csv" =>
                \A key \in GroupKeys(calls) :
                   IdsOf(CallerGroup(calls, key)) \cap dropped = {}

\* A csv run returned conversions for calls among which one has no identifier
\* but the phone of a call that has one.
C4_Witness ==
  \E i \in Invocations :
     /\ Succeeded(i) /\ inv[i].variant = "csv"
     /\ inv[i].response.conversions # <<>>
     /\ LET calls == CallsOf(inv[i].calls)
        IN  \E a, b \in 1..Len(calls) :
               /\ Unidentified(calls[a])
               /\ ~Unidentified(calls[b])
               /\ PhoneKey(calls[a]) = PhoneKey(calls[b])

\* C5: a caller group whose totalValue is not above 0 gets no conversion,
\* and its calls are added to zeroValue and to nothing else: zeroValue is
\* the number of calls in such groups, withValue the number of calls in the
\* other groups, totalValue the sum of the values emitted.
C5_ZeroGroupEmitsNothing ==
  \A i \in Invocations :
     (Succeeded(i) /\ inv[i].variant = "csv") =>
       LET calls == CallsOf(inv[i].calls)
           r == inv[i].response
           zero == {key \in GroupKeys(calls) :
                      GroupValue(CallerGroup(calls, key)).totalValue <= 0}
           zeroCalls == SelectSeq(Identified(calls), LAMBDA c : PhoneKey(c) \in zero)
       IN  /\ \A k \in 1..Len(r.conversions) :
                 r.conversions[k].callId \notin IdsOf(zeroCalls)
           /\ r.stats.zeroValue = Len(zeroCalls)
           /\ r.stats.withValue = Len(Identified(calls)) - Len(zeroCalls)
           /\ r.stats.withValue = Len(r.conversions)
           /\ r.stats.totalValue = ValueSum(r.conversions)

\* A csv run over a group worth nothing and a group worth something.
C5_Witness ==
  \E i \in Invocations :
     /\ Succeeded(i) /\ inv[i].variant = "csv"
     /\ inv[i].response.stats.zeroValue > 0
     /\ inv[i].response.stats.withValue > 0

C7_FetchFailureAborts ==
  [][\A i \in Invocations :
        /\ PageFailed(inv'[i]) =>
             /\ inv'[i].pc = "done"
             /\ inv'[i].response.statusCode = 500
             /\ ~inv'[i].response.success
             /\ inv'[i].response.conversions = <<>>
             /\ inv'[i].response.stats = NoStats
             /\ inv'[i].response.rowsWritten = 0
             /\ inv'[i].allCalls = <<>>
             /\ inv'[i].calls = <<>>
             /\ inv'[i].conversions = <<>>
             /\ inv'[i].appends = 0
             /\ Cardinality({k \in 1..Len(inv'[i].requested) :
                               ~inv'[i].requested[k].ok}) = 1
             /\ ~inv'[i].requested[Len(inv'[i].requested)].ok
        /\ PageFailed(inv[i]) => inv'[i] = inv[i]]_vars

\* A csv run failed on a later page, with records of earlier pages fetched.
C7_Witness ==
  \E i \in Invocations :
     /\ inv[i].variant = "csv"
     /\ PageFailed(inv[i])
     /\ Len(inv[i].requested) > 2

\* C8: whenever the fetch function has returned, the handler holds
\* every record of every page of the provider, once, in page order.
C8_CompleteFetch ==
  \A i \in Invocations :
     FetchReturned(i) =>
       inv[i].calls = ProviderPages(provider, ProviderPageCount(provider))

\* C9: fetchAllCalls asks for the pages 1, 2, 3, ... in order, a page only
\* after the page before it came back full, never for more than 10 pages,
\* and returns after the first page with fewer than 250 records or after
\* page 10.
C9_PagesInOrder ==
  \A i \in Invocations :
     (inv[i].variant = "csv" /\ inv[i].pc # "idle" /\ inv[i].method = "GET") =>
       LET r == inv[i].requested
           n == Len(r)
       IN  /\ \A k \in 1..n : r[k].page = k
           /\ n <= MaxPages
           /\ \A k \in 1..(n - 1) :
                 r[k].ok /\ Len(ProviderPage(provider, k)) >= PerPage
           /\ inv[i].pc = "fetch" => (inv[i].page = n + 1 /\ n < MaxPages)
           /\ FetchReturned(i) =>
                /\ n >= 1
                /\ r[n].ok
                /\ Len(ProviderPage(provider, n)) < PerPage \/ n = MaxPages

\* fetchAllCalls returned after a tenth page that was full.
C9_Witness ==
  \E i \in Invocations :
     /\ inv[i].variant = "csv"
     /\ FetchReturned(i)
     /\ Len(inv[i].requested) = MaxPages
     /\ Len(ProviderPage(provider, MaxPages)) = PerPage

\* C10: getTier(p) is very_good from 80, good from 60, fair from 40, poor
\* from 20 and very_poor below; the result is always one of the five tiers,
\* the multipliers of the bands are 1.0, 0.75, 0.50, 0.25 and 0, and the
\* multiplier never decreases when p grows.
C10_TierBands ==
  (probe.op = "getTier" /\ probe.done) =>
    /\ probe.tierP \in TierNames
    /\ probe.p >= 80 => probe.tierP = "very_good"
    /\ (60 <= probe.p /\ probe.p < 80) => probe.tierP = "good"
    /\ (40 <= probe.p /\ probe.p < 60) => probe.tierP = "fair"
    /\ (20 <= probe.p /\ probe.p < 40) => probe.tierP = "poor"
    /\ probe.p < 20 => probe.tierP = "very_poor"
    /\ TierMultiplier(probe.tierP) =
         (IF probe.p >= 80 THEN 100 ELSE IF probe.p >= 60 THEN 75
          ELSE IF probe.p >= 40 THEN 50 ELSE IF probe.p >= 20 THEN 25 ELSE 0)
    /\ probe.p <= probe.q =>
         TierMultiplier(probe.tierP) <= TierMultiplier(probe.tierQ)

\* getTier was applied to 20 and to 80.
C10_Witness ==
  /\ probe.op = "getTier" /\ probe.done
  /\ probe.p = 20 /\ probe.tierP = "poor"
  /\ probe.q = 80 /\ probe.tierQ = "very_good"

\* C11: for every shape of the lead-score field (absent, a number, a string,
\* an object with percent / score), getScorePercent returns an integer in
\* the range 0..100.
C11_ScoreInRange ==
  (probe.op = "score" /\ probe.done) => probe.p \in 0..100

\* the digit characters of a phone, in order
DigitsOf(phone) == SelectSeq(phone, LAMBDA ch : ch \in Digits)

\* x and y agree in their last 10 elements (in all, if they are shorter)
SameLastTen(x, y) ==
  \A k \in 0..9 :
     /\ k < Len(x) <=> k < Len(y)
     /\ k < Len(x) => x[Len(x) - k] = y[Len(y) - k]

\* Both calls lack a phone, or both have one and the phones agree in their
\* last 10 digits.
SameCaller(a, b) ==
  IF a.customer_phone_number = <<>> \/ b.customer_phone_number = <<>>
  THEN a.customer_phone_number = b.customer_phone_number
  ELSE SameLastTen(DigitsOf(a.customer_phone_number),
                   DigitsOf(b.customer_phone_number))

\* C12: after grouping, two identified calls are in the same caller group
\* exactly if their normalized phones (digits only, the last 10) are equal
\* or both lack a phone; every identified call is in one group, and the
\* calls without a phone are in the group "unknown".
C12_GroupedByPhone ==
  \A i \in Invocations :
     (Succeeded(i) /\ inv[i].variant = "csv") =>
       LET calls == CallsOf(inv[i].calls)
           ident == Identified(calls)
           keys == GroupKeys(calls)
       IN  /\ \A key \in keys :
                LET group == CallerGroup(calls, key)
                IN  /\ group # <<>>
                    /\ \A k \in 1..Len(group) : SameCaller(group[1], group[k])
                    /\ \A other \in keys \ {key} :
                          ~SameCaller(group[1], CallerGroup(calls, other)[1])
           /\ \A k \in 1..Len(ident) :
                 /\ \E key \in keys : PhoneKey(ident[k]) = key
                 /\ ident[k].customer_phone_number = <<>> =>
                      PhoneKey(ident[k]) = <<"unknown">>

\* A csv run grouped two calls whose phones differ in punctuation only.
C12_Witness ==
  \E i \in Invocations :
     /\ Succeeded(i) /\ inv[i].variant = "csv"
     /\ LET calls == CallsOf(inv[i].calls)
        IN  \E key \in GroupKeys(calls) :
               LET group == CallerGroup(calls, key)
               IN  /\ Len(group) = 2
                   /\ group[1].customer_phone_number = PhoneA
                   /\ group[2].customer_phone_number = PhoneA2
                   /\ inv[i].response.stats.withValue = 2

\* the rows are those of the conversions: one row per conversion, in order
RowsOf(rows, convs) ==
  /\ Len(rows) = Len(convs)
  /\ \A k \in 1..Len(rows) :
        /\ rows[k].callId = convs[k].callId
        /\ rows[k].gclid = convs[k].gclid
        /\ rows[k].conversionValue = convs[k].conversionValue

\* C13: in the sheets variant the handler calls the sink append only after
\* the fetch returned and every conversion of the run is computed, and only
\* with dry_run unset and at least one conversion; with these it always
\* calls it.  The sheet changes only by such a call, once per invocation, by
\* one row per conversion.  With dry_run set the handler returns the same
\* conversions and counters and the sheet is not written.
C13_SinkWrite ==
  [][\A i \in Invocations :
        LET v == inv[i]
            w == inv'[i]
            out == Pipeline("sheets", CallsOf(v.calls))
        IN  /\ (w.pc = "write" /\ v.pc # "write") =>
                 /\ v.pc = "process" /\ v.variant = "sheets"
                 /\ ~v.dryRun
                 /\ w.conversions = out.conversions
                 /\ w.stats = out.stats
                 /\ w.conversions # <<>>
                 /\ w.appends = 0
            /\ (v.pc = "process" /\ w.pc = "done" /\ v.variant = "sheets"
                /\ w.response.statusCode = 200) =>
                 /\ v.dryRun \/ out.conversions = <<>>
                 /\ w.response.conversions = out.conversions
                 /\ w.response.stats = out.stats
                 /\ w.response.rowsWritten = 0
                 /\ w.appends = 0
            /\ w.appends # v.appends =>
                 /\ v.pc = "write" /\ w.pc = "done"
                 /\ v.appends = 0 /\ w.appends = 1
                 /\ Len(sheet') = Len(sheet) + Len(v.conversions)
                 /\ RowsOf(SubSeq(sheet', Len(sheet) + 1, Len(sheet')),
                           w.response.conversions)
                 /\ w.response.conversions = v.conversions
                 /\ w.response.rowsWritten = Len(v.conversions)
            /\ sheet' # sheet => \E j \in Invocations : inv'[j].appends # inv[j].appends
            /\ (w.dryRun \/ w.variant = "csv") => w.appends = 0]_vars

\* A run with dry_run set and a run without returned the same conversions
\* and counters; the second wrote its rows, the first wrote nothing.
C13_Witness ==
  \E i, j \in Invocations :
     /\ Succeeded(i) /\ Succeeded(j)
     /\ inv[i].variant = "sheets" /\ inv[j].variant = "sheets"
     /\ inv[i].dryRun /\ ~inv[j].dryRun
     /\ inv[i].response.conversions # <<>>
     /\ inv[i].response.conversions = inv[j].response.conversions
     /\ inv[i].response.stats = inv[j].response.stats
     /\ inv[i].appends = 0 /\ inv[j].appends = 1
     /\ RowsOf(sheet, inv[j].response.conversions)

\* the scores getScorePercent gives the calls of the probed group
ProbedScores ==
  {getScorePercent([lead_score |-> probe.leads[k]]) :
     k \in 1..Len(probe.leads)}

MentionAt(txt, i) ==
  /\ IsNumber(txt[i])
  /\ LET S == {k \in (i + 1)..Len(txt) : txt[k] # " "}
         u == IF S = {} THEN Len(txt) + 1 ELSE Min(S)
         S2 == {k \in (u + 1)..Len(txt) : txt[k] # " "}
         u2 == IF S2 = {} THEN Len(txt) + 1 ELSE Min(S2)
     IN  /\ u <= Len(txt)
         /\ \/ txt[u] \in {"hp", "horsepower"}
            \/ txt[u] = "horse" /\ u2 <= Len(txt) /\ txt[u2] = "power"

\* the horsepower mentions of the lower-cased text that name a catalog size
CatalogMentions(text) ==
  LET txt == [k \in 1..Len(text) |-> ToLowerCase(text[k])]
  IN  {i \in 1..Len(txt) :
         MentionAt(txt, i) /\ txt[i] \in DOMAIN Products \ {"default"}}

\* C15: detectProduct returns a catalog key that a horsepower mention of
\* the text names, and it returns "default" only when no horsepower mention
\* in the text names a catalog size.
C15_DefaultOnlyWithoutMention ==
  (probe.op = "detect" /\ probe.done) =>
    /\ probe.detected # "default" =>
         \E i \in CatalogMentions(probe.text) : probe.text[i] = probe.detected
    /\ probe.detected = "default" => CatalogMentions(probe.text) = {}

\* C16: extractGclid, getScorePercent, getTier, detectProduct and
\* normalizePhone return a value for every fetched call, whatever the shapes
\* of its fields, and no run is aborted by an error raised on a call record.
C16_NeverRaises ==
  \A i \in Invocations :
     (FetchReturned(i) /\ inv[i].pc = "done") =>
       \/ inv[i].response.statusCode = 200
       \/ inv[i].response.error = "Sheets API error"

\* the conversion values by call id
ValueById(convs) ==
  {<<convs[k].callId, convs[k].conversionValue, convs[k].tier>> :
     k \in 1..Len(convs)}

\* C17: over calls of which every caller has exactly one identified call, a
\* run of the caller-aggregating variant and a run of the per-call variant
\* give every identified call the same tier and the same value, and return
\* conversions for the same calls.
C17_VariantsAgree ==
  \A i, j \in Invocations :
     (/\ Succeeded(i) /\ inv[i].variant = "csv"
      /\ Succeeded(j) /\ inv[j].variant = "sheets"
      /\ inv[i].calls = inv[j].calls) =>
       LET calls == CallsOf(inv[i].calls)
           ident == Identified(calls)
       IN  (\A key \in GroupKeys(calls) : Len(CallerGroup(calls, key)) = 1) =>
             /\ \A k \in 1..Len(ident) :
                   /\ GroupValue(<<ident[k]>>).tier = calculateValue(ident[k]).tier
                   /\ GroupValue(<<ident[k]>>).totalValue
                        = calculateValue(ident[k]).value
             /\ ValueById(inv[i].response.conversions)
                  = ValueById(inv[j].response.conversions)

\* the rows of the sheet for this call id and this click identifier
RowsFor(callId, gclid) ==
  {k \in 1..Len(sheet) : sheet[k].callId = callId /\ sheet[k].gclid = gclid}

\* C18: whenever two invocations of one variant have both fetched a call to
\* which the variant gives a value, each of them returns a conversion for
\* it; and when both are invocations of the sheets variant that appended,
\* the sheet holds two rows with the call's id and click identifier.
C18_DuplicatesAcrossInvocations ==
  \A i, j \in Invocations :
     (/\ i # j
      /\ Succeeded(i) /\ Succeeded(j)
      /\ inv[i].variant = inv[j].variant) =>
       LET ci == inv[i].response.conversions
           cj == inv[j].response.conversions
           both == IdsOf(inv[i].calls) \cap IdsOf(inv[j].calls)
       IN  \A k \in 1..Len(ci) :
              ci[k].callId \in both =>
                /\ \E m \in 1..Len(cj) :
                      /\ cj[m].callId = ci[k].callId
                      /\ cj[m].gclid = ci[k].gclid
                /\ (inv[i].appends = 1 /\ inv[j].appends = 1) =>
                      Cardinality(RowsFor(ci[k].callId, ci[k].gclid)) = 2

\* Two overlapping sheets runs, both started before either appended, have
\* each appended a row for the same call.
C18_Witness ==
  \E i, j \in Invocations :
     /\ i # j
     /\ Succeeded(i) /\ Succeeded(j)
     /\ inv[i].appends = 1 /\ inv[j].appends = 1
     /\ Len(sheet) >= 2
     /\ \E a, b \in 1..Len(sheet) :
           /\ a < b
           /\ sheet[a].callId = sheet[b].callId
           /\ sheet[a].gclid = sheet[b].gclid
           /\ sheet[a].syncedAt < sheet[b].syncedAt
           /\ inv[i].response.endDate < sheet[a].syncedAt
           /\ inv[j].response.endDate < sheet[a].syncedAt

\* C19: with the catalog prices and the tier multipliers, the even split of
\* a group total above 0 over 1 to 2500 calls (10 pages of 250), rounded to
\* the cent, is above 0: every conversion the csv variant emits has a value
\* above 0.
C19_ShareAboveZero ==
  (probe.op = "split" /\ probe.done /\ probe.total > 0) => probe.perCall > 0

\* The smallest total above 0 (the 3 hp price at a quarter) split over the
\* 2500 calls of ten full pages: 9 cents each.
C19_Witness ==
  /\ probe.op = "split" /\ probe.done
  /\ probe.product = "3" /\ probe.tierP = "poor"
  /\ probe.n = MaxPages * PerPage
  /\ probe.total = 22375
  /\ probe.perCall = 9

====
